---- MODULE Spec2Model ----
(***************************************************************************)
(* Intent-routing and streaming-orchestration pipeline of the chat agent:  *)
(* lib/ai/agent (createChatStream, createLangGraphStream, the resume and   *)
(* interview agents, classifyUserIntent, processMessagesWithPDF and        *)
(* handleFinishedMessages).                                                *)
(*                                                                         *)
(* The specifications below share the definitions of the module.           *)
(*   Spec      one turn through the pipeline, step by step: classify,      *)
(*             route, PDF pre-processing, model invocation, streaming to   *)
(*             the client, close of the UI message stream, finalize.       *)
(*   TurnsSpec a sequence of turns over the persisted Message table, each  *)
(*             turn collapsed to its finalize step.                        *)
(*   TitleSpec the first turn of a chat, step by step, next to the         *)
(*             detached title-generation task of that turn.                *)
(*   ReplaySpec   turns of a chat that already holds rows.                 *)
(*   DispatchSpec createChatStream under each value of USE_LANGGRAPH.      *)
(*   GraphSpec    runs of the compiled LangGraph graphs.                   *)
(*   RequestSpec  request bodies against postRequestBodySchema.            *)
(*   SkillsSpec   calls of the evaluateSkills tool.                        *)
(***************************************************************************)
EXTENDS Integers, Sequences, FiniteSets, TLC

VARIABLES
    pc,                 \* position of the turn in the pipeline
    entry,              \* which exported entry point handles the turn
    isToolApprovalFlow, \* the turn's tool-approval flag
    chatId,             \* the turn's chat
    uiMessages,         \* the turn's input messages
    userIntent,         \* result of classification: [intent, confidence]
    classifyOutcome,    \* how the classifier came to its result
    route,              \* generator selected for the turn
    steps,              \* pipeline steps of the turn, in the order they ran
    genInput,           \* the messages the generator builds its context from
    extractCalls,       \* urls handed to the extraction collaborator
    modelCalls,         \* number of streamText generation calls of the turn
    genState,           \* "idle", "running", "done", "error"
    emitted,            \* events the generator has emitted so far
    queue,              \* merged events not yet written to the client
    outbound,           \* events the client has received
    client,             \* "connected" or "gone"
    execState,          \* execute callback: "idle", "running", "settled"
    finishedMessages,   \* messages handed to onFinish
    finalizeMode,       \* mode handleFinishedMessages ran in
    calls,              \* storage calls issued by finalize, in order
    finalizeOutcome,    \* "none", "ok", "threw": how the finish hook ended
    finalizeRuns,       \* number of times finalize ran for the turn
    titleState,         \* titlePromise: "none", "pending", "resolved", "rejected"
    titleWrites,        \* updateChatTitleById calls: [chatId, ok]
    titleEvents,        \* title events written to the UI message stream
    unhandled,          \* promises that rejected with no handler attached
    request,            \* last request body put to postRequestBodySchema, and the verdict
    toolCall,           \* last call of the evaluateSkills tool, and its result
    envUseLangGraph,    \* value of process.env.USE_LANGGRAPH when the module loaded
    graphRun,           \* run of a compiled LangGraph graph: kind, position, nodes visited
    db,                 \* persisted Message rows
    dbPrev,             \* persisted rows before the last finalize
    normalIds,          \* ids of rows inserted by a normal-mode finalize
    nextId,             \* next id generateUUID hands out
    turns               \* number of turns finalized so far

vars == <<pc, entry, isToolApprovalFlow, chatId, uiMessages, userIntent,
          classifyOutcome, route,
          steps, genInput, extractCalls, modelCalls, genState, emitted, queue,
          outbound, client, execState, finishedMessages, finalizeMode, calls,
          finalizeOutcome, finalizeRuns, titleState, titleWrites, titleEvents,
          unhandled, request, toolCall, envUseLangGraph, graphRun,
          db, dbPrev, normalIds, nextId, turns>>

----------------------------------------------------------------------------
(* Bounds of the model *)

MaxMsgs == 2       \* messages in a turn's input history
MaxEvents == 2     \* events one generator stream emits
MaxTurns == 2      \* turns of a TurnsSpec behaviour
MaxSkills == 15    \* skills in a list handed to evaluateSkills

----------------------------------------------------------------------------
(* Data model: parts, messages *)

TextPart(t) == [type |-> "text", text |-> t]

FilePart(mediaType, url, filename) ==
    [type |-> "file", mediaType |-> mediaType, url |-> url, filename |-> filename]

ToolPart(state) == [type |-> "tool-getWeather", state |-> state]

ReasoningPart(t) == [type |-> "reasoning", text |-> t]

Message(id, role, parts) == [id |-> id, role |-> role, parts |-> parts]

IsPdfPart(part) ==
    /\ part.type = "file"
    /\ part.mediaType = "application/pdf"

\* Ids of a message list, as a set.
Ids(messages) == {messages[i].id : i \in DOMAIN messages}

HasPdf(messages) ==
    \E i \in DOMAIN messages :
        \E j \in DOMAIN messages[i].parts : IsPdfPart(messages[i].parts[j])

----------------------------------------------------------------------------
(* Text-extraction collaborator: what each url yields.  A url that is not  *)
(* a parseable document makes the extraction throw.                        *)

ExtractFails(url) == url = "u_bad"

ExtractPDFFromUrl(url) ==
    [text |-> "RESUME_BODY", numPages |-> 2, title |-> "CV", author |-> ""]

FormatPDFForAI(content, filename) ==
    LET title == IF content.title # "" THEN <<"Title: ", content.title, "\n">> ELSE <<>>
        author == IF content.author # "" THEN <<"Author: ", content.author, "\n">> ELSE <<>>
    IN <<"[PDF Document: ", filename, "]", "\n">> \o title \o author
         \o <<"Pages: ", ToString(content.numPages), "\n", "\n",
              "--- Content ---", "\n", content.text, "\n", "--- End of PDF ---">>

FilenameOf(part) == IF part.filename # "" THEN part.filename ELSE "document.pdf"

\* Variant: the test looks at the part's type only, so every file part is
\* sent to the extraction.
ProcessPartAnyFile(part) ==
    IF part.type = "file"
    THEN IF ExtractFails(part.url)
         THEN TextPart(<<"[PDF Document: ", FilenameOf(part), "]",
                         " (Unable to extract content)">>)
         ELSE TextPart(FormatPDFForAI(ExtractPDFFromUrl(part.url), FilenameOf(part)))
    ELSE part

\* Variant: a PDF part whose extraction fails is passed on as it came.
ProcessPartKeepsUnreadable(part) ==
    IF IsPdfPart(part) /\ ~ExtractFails(part.url)
    THEN TextPart(FormatPDFForAI(ExtractPDFFromUrl(part.url), FilenameOf(part)))
    ELSE part

\* One part through the pre-processor.
ProcessPart(part) ==
    IF IsPdfPart(part)
    THEN IF ExtractFails(part.url)
         THEN TextPart(<<"[PDF Document: ", FilenameOf(part), "]",
                         " (Unable to extract content)">>)
         ELSE TextPart(FormatPDFForAI(ExtractPDFFromUrl(part.url), FilenameOf(part)))
    ELSE part

\* Variant: the first failing extraction ends the processing of the message,
\* whose later parts are passed on as they came.
ProcessPartsStopAtFailure(parts) ==
    LET failing == {j \in DOMAIN parts :
                       IsPdfPart(parts[j]) /\ ExtractFails(parts[j].url)}
        stop == IF failing = {} THEN Len(parts)
                ELSE CHOOSE j \in failing : \A k \in failing : j <= k
    IN [j \in DOMAIN parts |->
           IF j > stop THEN parts[j] ELSE ProcessPart(parts[j])]

ProcessParts(parts) == [j \in DOMAIN parts |-> ProcessPart(parts[j])]

processMessagesWithPDF(messages) ==
    [i \in DOMAIN messages |->
        [messages[i] EXCEPT !.parts = ProcessParts(messages[i].parts)]]

\* Variant: the pre-processor writes the converted parts into the messages
\* it was given.
InputAfterPreprocessInPlace(messages) == processMessagesWithPDF(messages)

\* The pre-processor pushes copies {...message, parts: newParts} on a new
\* list: the list it was given, and its parts, stay as they were.
InputAfterPreprocess(messages) == messages

\* Urls the pre-processor hands to the extraction collaborator, in order.
RECURSIVE PartUrls(_)
PartUrls(parts) ==
    IF parts = <<>> THEN <<>>
    ELSE (IF IsPdfPart(Head(parts)) THEN <<Head(parts).url>> ELSE <<>>)
         \o PartUrls(Tail(parts))

RECURSIVE ExtractionUrls(_)
ExtractionUrls(messages) ==
    IF messages = <<>> THEN <<>>
    ELSE PartUrls(Head(messages).parts) \o ExtractionUrls(Tail(messages))

----------------------------------------------------------------------------
(* Text of a message: text parts only, joined by a blank *)

RECURSIVE JoinTexts(_)
JoinTexts(parts) ==
    IF parts = <<>> THEN <<>>
    ELSE IF Head(parts).type # "text" THEN JoinTexts(Tail(parts))
    ELSE LET rest == JoinTexts(Tail(parts))
             more == \E j \in DOMAIN Tail(parts) : Tail(parts)[j].type = "text"
         IN Head(parts).text \o (IF more THEN <<" ">> ELSE <<>>) \o rest

MessageText(message) == JoinTexts(message.parts)

\* Number of characters of a token of text.
TokLen(tok) ==
    CASE tok = "" -> 0
      [] tok = " " -> 1
      [] tok = "\n" -> 1
      [] tok = "hi" -> 2
      [] tok = "reply" -> 5
      [] tok = "cv.pdf" -> 6
      [] tok = "document.pdf" -> 12
      [] tok = "[PDF Document: " -> 15
      [] tok = "]" -> 1
      [] tok = " (Unable to extract content)" -> 28
      [] tok = "LONG_RESUME" -> 60
      [] tok = "RESUME_BODY" -> 40
      [] tok = "--- Content ---" -> 15
      [] tok = "--- End of PDF ---" -> 18
      [] tok = "Pages: " -> 7
      [] tok = "Title: " -> 7
      [] tok = "Author: " -> 8
      [] OTHER -> 2

RECURSIVE TextLength(_)
TextLength(text) ==
    IF text = <<>> THEN 0 ELSE TokLen(Head(text)) + TextLength(Tail(text))

\* text.trim() is empty
IsBlank(text) == \A k \in DOMAIN text : text[k] \in {"", " ", "\n"}

RECURSIVE SelectRole(_, _)
SelectRole(messages, role) ==
    IF messages = <<>> THEN <<>>
    ELSE (IF Head(messages).role = role THEN <<Head(messages)>> ELSE <<>>)
         \o SelectRole(Tail(messages), role)

ResumeThreshold == 50

hasResumeContent(messages) ==
    LET userMessages == SelectRole(messages, "user")
    IN \E i \in DOMAIN userMessages :
           TextLength(MessageText(userMessages[i])) > ResumeThreshold

----------------------------------------------------------------------------
(* Turn inputs *)

ChatIds == {"chatA", "chatB"}

\* Chat of the turn that Spec follows step by step.
PipelineChats == {"chatA"}

ClientMessages ==
    { Message(1, "user", <<TextPart(<<"hi">>)>>),
      Message(1, "user", <<FilePart("application/pdf", "u_ok", "cv.pdf"),
                           TextPart(<<"hi">>)>>),
      Message(1, "user", <<FilePart("application/pdf", "u_ok", "cv.pdf"),
                           FilePart("application/pdf", "u_bad", ""),
                           FilePart("application/pdf", "u_ok", "cv.pdf")>>),
      Message(2, "assistant", <<ToolPart("approval-requested")>>),
      Message(3, "user", <<FilePart("image/png", "u_img", "a.png"),
                           TextPart(<<"LONG_RESUME">>)>>) }

\* First id generateUUID hands out; client ids lie below it.
ServerIdBase == 10

\* A persisted row replayed by the client as a message of the turn.
RowMessage(row) == Message(row.id, row.role, row.parts)

Pool(rows) == ClientMessages \cup {RowMessage(rows[i]) : i \in DOMAIN rows}

\* Message ids are unique within a turn.
Histories(rows) ==
    UNION { { h \in [1..n -> Pool(rows)] :
                \A i, j \in 1..n : i # j => h[i].id # h[j].id } : n \in 0..MaxMsgs }

----------------------------------------------------------------------------
(* Storage collaborator (lib/db/queries) *)

RowsWithId(rows, id) == {i \in DOMAIN rows : rows[i].id = id}

saveMessages(rows, messages) == rows \o messages

updateMessage(rows, id, parts) ==
    [i \in DOMAIN rows |->
        IF rows[i].id = id THEN [rows[i] EXCEPT !.parts = parts] ELSE rows[i]]

ApplyCall(rows, call) ==
    IF call.op = "updateMessage"
    THEN updateMessage(rows, call.id, call.parts)
    ELSE saveMessages(rows, call.messages)

RECURSIVE ApplyCalls(_, _)
ApplyCalls(rows, cs) ==
    IF cs = <<>> THEN rows ELSE ApplyCalls(ApplyCall(rows, Head(cs)), Tail(cs))

----------------------------------------------------------------------------
(* Finalize/persist reconciler *)

\* Variant: the row is written without the chat it belongs to.
NewRowWithoutChat(message, chat, now) ==
    [id |-> message.id, role |-> message.role, parts |-> message.parts,
     createdAt |-> now, attachments |-> <<>>, chatId |-> "none"]

NewRow(message, chat, now) ==
    [id |-> message.id, role |-> message.role, parts |-> message.parts,
     createdAt |-> now, attachments |-> <<>>, chatId |-> chat]

\* Variant: the update is sent without the finished message's parts.
UpdateCallWithoutParts(message) ==
    [op |-> "updateMessage", id |-> message.id, parts |-> <<>>]

\* Variant: the update also sends the finished message's role.
UpdateCallWithRole(message) ==
    [op |-> "updateMessage", id |-> message.id, parts |-> message.parts,
     role |-> message.role]

UpdateCall(message) ==
    [op |-> "updateMessage", id |-> message.id, parts |-> message.parts]

SaveCall(rows) == [op |-> "saveMessages", messages |-> rows]

\* Variant: the lookup also asks for a role no message of a turn has, and
\* never finds a message.
ExistingMsgNeverFound(messages, id) ==
    \E i \in DOMAIN messages : messages[i].id = id /\ messages[i].role = "system"

\* uiMessages.find((m) => m.id === finishedMsg.id)
ExistingMsg(messages, id) == \E i \in DOMAIN messages : messages[i].id = id

\* Variant: the flag is ignored and every finished message is inserted.
handleFinishedMessagesInsertOnly(finished, messages, chat, flag, now) ==
    IF Len(finished) > 0
    THEN <<SaveCall([i \in DOMAIN finished |-> NewRow(finished[i], chat, now)])>>
    ELSE <<>>

\* The storage calls handleFinishedMessages issues, in order, when none throws.
handleFinishedMessages(finished, messages, chat, flag, now) ==
    IF flag
    THEN [i \in DOMAIN finished |->
            IF ExistingMsg(messages, finished[i].id)
            THEN UpdateCall(finished[i])
            ELSE SaveCall(<<NewRow(finished[i], chat, now)>>)]
    ELSE IF Len(finished) > 0
         THEN <<SaveCall([i \in DOMAIN finished |-> NewRow(finished[i], chat, now)])>>
         ELSE <<>>

\* Calls are awaited one after the other with no try/catch around them: the
\* call that throws (failAt, 0 for none) is the last one issued.
IssuedCalls(plan, failAt) == IF failAt = 0 THEN plan ELSE SubSeq(plan, 1, failAt)

EffectiveCalls(plan, failAt) == IF failAt = 0 THEN plan ELSE SubSeq(plan, 1, failAt - 1)

----------------------------------------------------------------------------
(* Intent classification and routing *)

IntentLabels == {"resume_opt", "mock_interview", "related_topics", "others"}

\* Labels a model reply can carry: the four labels, anything else, or null.
ReplyLabels == IntentLabels \cup {"bogus", "null"}

\* Confidence in hundredths; NoConfidence stands for an absent confidence.
NoConfidence == -1

Intent(label, confidence) == [intent |-> label, confidence |-> confidence]

\* True when the latest user message has text to classify.
HasUserText(messages) ==
    LET userMessages == SelectRole(messages, "user")
    IN /\ userMessages # <<>>
       /\ ~IsBlank(MessageText(userMessages[Len(userMessages)]))

\* Replies of the model collaborator to the classification prompt: a label
\* with a confidence, or a label alone.
ModelReplies ==
    {Intent(l, 95) : l \in ReplyLabels} \cup {Intent("resume_opt", NoConfidence)}

\* How a classification can go: "skipped" (no user text, the model is not
\* called), "parsed" (the reply carries a structured result), "unparsed" (the
\* reply carries none), "threw" (the model call failed).
ClassifierOutcomes(messages) ==
    IF ~HasUserText(messages) THEN {"skipped"} ELSE {"parsed", "unparsed", "threw"}

\* Replies that go with an outcome: only a parsed reply has a content.
RepliesFor(outcome) ==
    IF outcome = "parsed" THEN ModelReplies ELSE {Intent("none", NoConfidence)}

\* Whether the classifier called the model collaborator.
CalledModel(outcome) == outcome # "skipped"

\* Result of classifyUserIntent for an outcome and the model's reply.
UserIntentFor(outcome, reply) ==
    CASE outcome = "skipped" -> Intent("others", NoConfidence)
      [] outcome = "parsed" -> reply                              \* the tool call's args
      [] outcome = "unparsed" -> Intent("others", NoConfidence)   \* no tool call
      [] OTHER -> Intent("related_topics", NoConfidence)          \* catch

\* Result of classifyNode for an outcome and the model's reply.
NodeIntentFor(outcome, reply) ==
    CASE outcome = "skipped" -> Intent("others", 100)
      [] outcome = "parsed" ->
            Intent(reply.intent,                        \* parsed.confidence ?? 0.8
                   IF reply.confidence = NoConfidence THEN 80 ELSE reply.confidence)
      [] OTHER -> Intent("related_topics", 50)          \* no JSON, or catch

\* Results classifyUserIntent can return for a turn.
classifyUserIntent(messages) ==
    {UserIntentFor(o[1], o[2]) :
        o \in UNION {{<<oc, r>> : r \in RepliesFor(oc)} : oc \in ClassifierOutcomes(messages)}}

\* Results classifyNode can leave in the graph state for a turn.
classifyNode(messages) ==
    {NodeIntentFor(o[1], o[2]) :
        o \in UNION {{<<oc, r>> : r \in RepliesFor(oc)} : oc \in ClassifierOutcomes(messages)}}

\* Variant: the chain names related_topics and others and has no final else.
LegacyRouteWithoutDefault(intent) ==
    IF intent = "resume_opt" THEN "resume"
    ELSE IF intent = "mock_interview" THEN "interview"
    ELSE IF intent \in {"related_topics", "others"} THEN "chat"
    ELSE "none"

\* if/else chain of createChatStream
LegacyRoute(intent) ==
    IF intent = "resume_opt" THEN "resume"
    ELSE IF intent = "mock_interview" THEN "interview"
    ELSE "chat"

\* Variant: the switch names the four labels and sends anything else to END.
routeByIntentKnownLabelsOnly(intent) ==
    CASE intent = "resume_opt" -> "resumeOpt"
      [] intent = "mock_interview" -> "mockInterview"
      [] intent \in {"related_topics", "others"} -> "chat"
      [] OTHER -> "__end__"

\* routeByIntent of the graph: the node an intent goes to
routeByIntent(intent) ==
    CASE intent = "resume_opt" -> "resumeOpt"
      [] intent = "mock_interview" -> "mockInterview"
      [] OTHER -> "chat"

\* switch of createLangGraphStream
StreamRoute(intent) ==
    CASE intent = "resume_opt" -> "resume"
      [] intent = "mock_interview" -> "interview"
      [] OTHER -> "chat"

\* Variant: a classification with a low or missing confidence is sent to the
\* chat generator whatever its label.
RouteOfAboveThreshold(e, intent) ==
    IF intent.confidence < 50 THEN "chat"
    ELSE IF e = "createLangGraphStream" THEN StreamRoute(intent.intent)
    ELSE LegacyRoute(intent.intent)

\* The generator an entry point selects for a classification result.
RouteOf(e, intent) ==
    IF e = "createLangGraphStream" THEN StreamRoute(intent.intent)
    ELSE LegacyRoute(intent.intent)

----------------------------------------------------------------------------
(* UI message stream (createUIMessageStream) as the agent uses it *)

\* Kind of the n-th event of a generator stream: reasoning first, then text,
\* then a tool call, and so on.
KindAt(n) ==
    CASE n % 3 = 1 -> "reasoning-delta"
      [] n % 3 = 2 -> "text-delta"
      [] OTHER -> "tool-call"

ErrorText == "Oops, an error occurred!"

\* What a failed model invocation raises.
ProviderError == "provider error: 503 from upstream"

\* Variant: the handler hands the exception's message on.
onErrorForwardsMessage(error) == error

\* onError: () => "Oops, an error occurred!"
onError(error) == ErrorText

ErrorChunk(error) == [n |-> 0, kind |-> "error", text |-> onError(error)]

\* Variant: the failure is reported once by the merged stream and once more
\* by the stream that merges it.
FailureChunksRepeated(error) == <<ErrorChunk(error), ErrorChunk(error)>>

\* What a generator stream that fails ends with: one error chunk.
FailureChunks(error) == <<ErrorChunk(error)>>

\* Variant: the merge hands out the newest event it holds.
DeliveredNewest(q) == q[Len(q)]

\* The merge hands out the events in the order it read them.
Delivered(q) == Head(q)

EventPart(event) ==
    CASE event.kind = "text-delta" -> TextPart(<<"reply">>)
      [] event.kind = "reasoning-delta" -> ReasoningPart(<<"reply">>)
      [] OTHER -> ToolPart("output-available")

ResponseParts(events) == [k \in DOMAIN events |-> EventPart(events[k])]

ResolveTools(parts) ==
    [j \in DOMAIN parts |->
        IF parts[j].type = "tool-getWeather" THEN ToolPart("output-available")
        ELSE parts[j]]

\* originalMessages: isToolApprovalFlow ? uiMessages : undefined
OriginalMessages(flag, messages) == IF flag THEN messages ELSE <<>>

\* The stream continues the last assistant message of originalMessages,
\* otherwise the response message gets an id from generateId.
IsContinuation(original) ==
    /\ original # <<>>
    /\ original[Len(original)].role = "assistant"

ResponseMessage(original, events, freshId) ==
    IF IsContinuation(original)
    THEN LET last == original[Len(original)]
         IN Message(last.id, "assistant", ResolveTools(last.parts) \o ResponseParts(events))
    ELSE Message(freshId, "assistant", ResponseParts(events))

\* messages handed to onFinish
FinishedMessages(original, events, freshId) ==
    (IF IsContinuation(original) THEN SubSeq(original, 1, Len(original) - 1)
     ELSE original) \o <<ResponseMessage(original, events, freshId)>>

\* A stream that produced no chunk at all may report no message.
FinishedChoices(original, events, freshId) ==
    {FinishedMessages(original, events, freshId)}
    \cup (IF events = <<>> /\ original = <<>> THEN {<<>>} ELSE {})

----------------------------------------------------------------------------
(* Entry points that handle a turn *)

Entries == {"createChatStream",         \* legacy if/else routing
            "createLangGraphStream",    \* LangGraph classification + streamText
            "createChatStreamDirect",   \* createChatStream without routing
            "resumeOptimizationAgent",
            "mockInterviewAgent"}

Routed == {"createChatStream", "createLangGraphStream"}

Agents == {"resumeOptimizationAgent", "mockInterviewAgent"}

\* isToolApprovalFlow as the entry point's onFinish hands it to
\* handleFinishedMessages.
FinalizeFlag(e, flag) == IF e \in Agents THEN FALSE ELSE flag

\* originalMessages as the entry point hands them to createUIMessageStream.
EntryOriginals(e, flag, messages) ==
    IF e \in Agents THEN <<>> ELSE OriginalMessages(flag, messages)

\* Generator an entry point that does not classify goes to.
FixedRoute(e) ==
    CASE e = "resumeOptimizationAgent" -> "resume"
      [] e = "mockInterviewAgent" -> "interview"
      [] OTHER -> "chat"

\* Order of the steps of execute.  createChatStream classifies, routes, and
\* the generator it calls pre-processes (or not) before it calls streamText;
\* createLangGraphStream classifies, pre-processes, then switches on the
\* intent and calls streamText; the other entry points call streamText
\* without classifying.
FirstStep(e) == IF e \in Routed THEN "classify" ELSE "invoke"

\* Variant: the generator is invoked right after classification, before the
\* intent is routed on.
AfterClassifySkipsRouting(e) == "invoke"

AfterClassify(e) == IF e = "createLangGraphStream" THEN "preprocess" ELSE "route"

AfterPreprocess(e) == IF e = "createLangGraphStream" THEN "route" ELSE "invoke"

\* Whether the generator of a route pre-processes PDF attachments itself
\* (createChatStream: executeResumeOptStream and executeStreamText do,
\* executeMockInterviewStream does not).
LegacyPreprocesses(r) == r \in {"resume", "chat"}

AfterRoute(e, r) ==
    IF e = "createChatStream" /\ LegacyPreprocesses(r) THEN "preprocess" ELSE "invoke"

\* execute awaits result.consumeStream(), except in createChatStreamDirect,
\* which starts it and returns.
AwaitsConsume(e) == e # "createChatStreamDirect"

\* Variant: consumeStream rejects when the stream it read ended with an error,
\* inside the try block of createLangGraphStream.
FailureReachesCatchOnStreamError(e, state) ==
    e = "createLangGraphStream" /\ state = "error"

\* result.consumeStream() resolves whether the generator's stream ended
\* normally or with an error chunk, so a failure during generation does not
\* reach the catch block of execute.
FailureReachesCatch(e, state) == FALSE

\* Variant: without consumeStream the generator advances only while the
\* client reads.
GeneratorHeldByClient == client = "connected"

\* result.consumeStream() reads the generator's stream to its end whatever the
\* client does, so the generator is never held back by the outbound side.
GeneratorUnblocked == TRUE

\* Variant: the UI message stream ends only after a generator stream that
\* ended normally.
StreamEndedOnSuccessOnly ==
    /\ execState = "settled"
    /\ genState = "done"
    /\ queue = <<>>

\* The UI message stream ends once execute has settled and every merged
\* stream has ended and been written out.
StreamEnded ==
    /\ execState = "settled"
    /\ genState \in {"done", "error"}
    /\ queue = <<>>

\* Variant: the finish hook is called as soon as the generator is started.
FinalizeWhileStreaming == pc \in {"streaming", "closed"}

\* onFinish runs when the UI message stream has ended.
FinalizeReady == pc = "closed"

----------------------------------------------------------------------------
(* Title task: titlePromise.then(...) attached by the entry point *)

\* Entry points that have a titlePromise parameter.
TakesTitlePromise(e) == e \notin Agents

\* createChatStreamDirect also writes the title to the UI message stream;
\* createChatStream and createLangGraphStream only store it.
WritesTitleEvent(e) == e = "createChatStreamDirect"

TitleChunk == [n |-> 0, kind |-> "data-chat-title"]

\* Variant: execute awaits the title promise before it goes on.
ExecuteHeldByTitleAwait == titleState = "pending"

\* The continuation is attached with then() and nothing awaits it: execute
\* goes on whatever the state of the title task.
ExecuteHeldByTitle == FALSE

----------------------------------------------------------------------------
(* State after construction *)

TurnIdle ==
    /\ pc = "idle"
    /\ entry = "none"
    /\ isToolApprovalFlow = FALSE
    /\ chatId = "none"
    /\ uiMessages = <<>>
    /\ userIntent = Intent("none", NoConfidence)
    /\ classifyOutcome = "none"
    /\ route = "none"
    /\ steps = <<>>
    /\ genInput = <<>>
    /\ extractCalls = <<>>
    /\ modelCalls = 0
    /\ genState = "idle"
    /\ emitted = <<>>
    /\ queue = <<>>
    /\ outbound = <<>>
    /\ client = "connected"
    /\ execState = "idle"
    /\ finishedMessages = <<>>
    /\ finalizeMode = "none"
    /\ calls = <<>>
    /\ finalizeOutcome = "none"
    /\ finalizeRuns = 0
    /\ titleState = "none"
    /\ titleWrites = <<>>
    /\ titleEvents = 0
    /\ unhandled = {}

\* Nothing posted, no tool called, no graph run.
SideIdle ==
    /\ request = [body |-> "none", verdict |-> "none"]
    /\ toolCall = [args |-> <<>>, now |-> 0, result |-> <<>>]
    /\ graphRun = [graph |-> "none", at |-> "none", messages |-> <<>>,
                   visited |-> <<>>, intent |-> "null", response |-> ""]

Init ==
    /\ TurnIdle
    /\ SideIdle
    /\ envUseLangGraph = "unset"
    /\ db = <<>>
    /\ dbPrev = <<>>
    /\ normalIds = {}
    /\ nextId = ServerIdBase
    /\ turns = 0

storeVars == <<db, dbPrev, normalIds, nextId, turns>>

turnVars == <<entry, isToolApprovalFlow, chatId, uiMessages>>

streamVars == <<genState, emitted, queue, outbound, client, execState>>

finalizeVars == <<finishedMessages, finalizeMode, calls, finalizeOutcome, finalizeRuns>>

titleVars == <<titleState, titleWrites, titleEvents, unhandled>>

sideVars == <<request, toolCall, envUseLangGraph, graphRun>>

----------------------------------------------------------------------------
(* Pipeline of one turn *)

\* createChatStream / createLangGraphStream / an agent is called for a turn:
\* the UI message stream is created and execute starts.  titlePromise tells
\* whether the caller hands a title promise over; the agents take none.
StartTurn(e, flag, chat, messages, titlePromise) ==
    /\ pc = "idle"
    /\ titleState' = IF titlePromise /\ TakesTitlePromise(e) THEN "pending" ELSE "none"
    /\ UNCHANGED <<titleWrites, titleEvents, unhandled>>
    /\ UNCHANGED sideVars
    /\ entry' = e
    /\ isToolApprovalFlow' = flag
    /\ chatId' = chat
    /\ uiMessages' = messages
    /\ execState' = "running"
    /\ pc' = FirstStep(e)
    /\ route' = IF e \in Routed THEN "none" ELSE FixedRoute(e)
    /\ UNCHANGED <<userIntent, classifyOutcome, steps, genInput, extractCalls, modelCalls, genState,
                   emitted, queue, outbound, client>>
    /\ UNCHANGED finalizeVars
    /\ UNCHANGED storeVars

\* await classifyUserIntent(...) / await agentGraph.invoke(...)
Classify ==
    /\ pc = "classify"
    /\ ~ExecuteHeldByTitle
    /\ \E outcome \in ClassifierOutcomes(uiMessages) :
          \E reply \in RepliesFor(outcome) :
             /\ classifyOutcome' = outcome
             /\ userIntent' = IF entry = "createLangGraphStream"
                              THEN NodeIntentFor(outcome, reply)
                              ELSE UserIntentFor(outcome, reply)
    /\ steps' = Append(steps, "classify")
    /\ pc' = AfterClassify(entry)
    /\ UNCHANGED <<route, genInput, extractCalls, modelCalls>>
    /\ UNCHANGED <<sideVars, titleVars, turnVars, streamVars, finalizeVars, storeVars>>

\* agentGraph.invoke rejects: control goes to the catch block of execute
GraphThrows ==
    /\ pc = "classify"
    /\ ~ExecuteHeldByTitle
    /\ entry = "createLangGraphStream"
    /\ steps' = Append(steps, "throw")
    /\ pc' = "fallback"
    /\ UNCHANGED <<userIntent, classifyOutcome, route, genInput, extractCalls, modelCalls>>
    /\ UNCHANGED <<sideVars, titleVars, turnVars, streamVars, finalizeVars, storeVars>>

\* the if/else chain, or the switch on the intent
Route ==
    /\ pc = "route"
    /\ route' = RouteOf(entry, userIntent)
    /\ steps' = Append(steps, "route")
    /\ pc' = AfterRoute(entry, route')
    /\ UNCHANGED <<userIntent, classifyOutcome, genInput, extractCalls, modelCalls>>
    /\ UNCHANGED <<sideVars, titleVars, turnVars, streamVars, finalizeVars, storeVars>>

\* await processMessagesWithPDF(...)
Preprocess ==
    /\ pc = "preprocess"
    /\ genInput' = processMessagesWithPDF(uiMessages)
    /\ uiMessages' = InputAfterPreprocess(uiMessages)
    /\ extractCalls' = extractCalls \o ExtractionUrls(uiMessages)
    /\ steps' = Append(steps, "pdf")
    /\ pc' = AfterPreprocess(entry)
    /\ UNCHANGED <<userIntent, classifyOutcome, route, modelCalls>>
    /\ UNCHANGED <<entry, isToolApprovalFlow, chatId>>
    /\ UNCHANGED <<sideVars, titleVars, streamVars, finalizeVars, storeVars>>

Preprocessed == \E k \in DOMAIN steps : steps[k] = "pdf"

\* streamText(...) and dataStream.merge(result.toUIMessageStream(...))
Invoke ==
    /\ pc = "invoke"
    /\ ~ExecuteHeldByTitle
    /\ genInput' = IF Preprocessed THEN genInput ELSE uiMessages
    /\ modelCalls' = modelCalls + 1
    /\ genState' = "running"
    /\ execState' = IF AwaitsConsume(entry) THEN execState ELSE "settled"
    /\ steps' = Append(steps, "invoke")
    /\ pc' = "streaming"
    /\ UNCHANGED <<userIntent, classifyOutcome, route, extractCalls, emitted, queue, outbound, client>>
    /\ UNCHANGED <<sideVars, titleVars, turnVars, finalizeVars, storeVars>>

\* catch block of createLangGraphStream: a second streamText that is asked to
\* say the apology, merged into the stream
FallbackInvoke ==
    /\ pc = "fallback"
    /\ modelCalls' = modelCalls + 1
    /\ genState' = "running"
    /\ steps' = Append(steps, "fallback")
    /\ pc' = "streaming"
    /\ UNCHANGED <<userIntent, classifyOutcome, route, genInput, extractCalls, emitted, queue,
                   outbound, client, execState>>
    /\ UNCHANGED <<sideVars, titleVars, turnVars, finalizeVars, storeVars>>

----------------------------------------------------------------------------
(* Streaming: the generator, the merge into the outbound stream, the client *)

Event(n, kind) == [n |-> n, kind |-> kind]

\* the generator's stream yields one more event
Emit ==
    /\ pc = "streaming"
    /\ genState = "running"
    /\ GeneratorUnblocked
    /\ Len(emitted) < MaxEvents
    /\ emitted' = Append(emitted, Event(Len(emitted) + 1, KindAt(Len(emitted) + 1)))
    /\ queue' = Append(queue, Event(Len(emitted) + 1, KindAt(Len(emitted) + 1)))
    /\ UNCHANGED <<pc, userIntent, classifyOutcome, route, steps, genInput, extractCalls, modelCalls,
                   genState, outbound, client, execState>>
    /\ UNCHANGED <<sideVars, titleVars, turnVars, finalizeVars, storeVars>>

\* the generator's stream ends normally
GenFinish ==
    /\ pc = "streaming"
    /\ genState = "running"
    /\ GeneratorUnblocked
    /\ genState' = "done"
    /\ UNCHANGED <<pc, userIntent, classifyOutcome, route, steps, genInput, extractCalls, modelCalls,
                   emitted, queue, outbound, client, execState>>
    /\ UNCHANGED <<sideVars, titleVars, turnVars, finalizeVars, storeVars>>

\* the model invocation fails: the stream ends with an error chunk, whose text
\* is what onError returns
GenFail ==
    /\ pc = "streaming"
    /\ genState = "running"
    /\ GeneratorUnblocked
    /\ genState' = "error"
    /\ queue' = queue \o FailureChunks(ProviderError)
    /\ UNCHANGED <<pc, userIntent, classifyOutcome, route, steps, genInput, extractCalls, modelCalls,
                   emitted, outbound, client, execState>>
    /\ UNCHANGED <<sideVars, titleVars, turnVars, finalizeVars, storeVars>>

\* the merged stream hands its next event to the outbound side; nothing is
\* written to a client that is gone
Forward ==
    /\ pc = "streaming"
    /\ queue # <<>>
    /\ queue' = Tail(queue)
    /\ outbound' = IF client = "connected" THEN Append(outbound, Delivered(queue))
                   ELSE outbound
    /\ UNCHANGED <<pc, userIntent, classifyOutcome, route, steps, genInput, extractCalls, modelCalls,
                   genState, emitted, client, execState>>
    /\ UNCHANGED <<sideVars, titleVars, turnVars, finalizeVars, storeVars>>

\* the caller stops reading
ClientDisconnect ==
    /\ pc \notin {"idle", "finalized"}
    /\ client = "connected"
    /\ client' = "gone"
    /\ UNCHANGED <<pc, userIntent, classifyOutcome, route, steps, genInput, extractCalls, modelCalls,
                   genState, emitted, queue, outbound, execState>>
    /\ UNCHANGED <<sideVars, titleVars, turnVars, finalizeVars, storeVars>>

\* await result.consumeStream() resolves and execute returns; were the await
\* to reject inside the try block of createLangGraphStream, the catch block
\* would start its own streamText and merge it
ExecuteSettles ==
    /\ pc = "streaming"
    /\ execState = "running"
    /\ genState \in {"done", "error"}
    /\ IF /\ FailureReachesCatch(entry, genState)
          /\ \A k \in DOMAIN steps : steps[k] # "fallback"
       THEN /\ modelCalls' = modelCalls + 1
            /\ genState' = "running"
            /\ steps' = Append(steps, "fallback")
            /\ UNCHANGED execState
       ELSE /\ execState' = "settled"
            /\ UNCHANGED <<modelCalls, genState, steps>>
    /\ UNCHANGED <<pc, userIntent, classifyOutcome, route, genInput, extractCalls,
                   emitted, queue, outbound, client>>
    /\ UNCHANGED <<sideVars, titleVars, turnVars, finalizeVars, storeVars>>

\* the UI message stream ends
CloseStream ==
    /\ pc = "streaming"
    /\ StreamEnded
    /\ pc' = "closed"
    /\ UNCHANGED <<userIntent, classifyOutcome, route, steps, genInput, extractCalls, modelCalls>>
    /\ UNCHANGED <<sideVars, titleVars, turnVars, streamVars, finalizeVars, storeVars>>

----------------------------------------------------------------------------
(* Finalize: onFinish -> handleFinishedMessages *)

ModeName(flag) == IF flag THEN "tool-approval" ELSE "normal"

\* Ids of the rows the calls insert.
RECURSIVE InsertedIds(_)
InsertedIds(cs) ==
    IF cs = <<>> THEN {}
    ELSE (IF Head(cs).op = "saveMessages" THEN Ids(Head(cs).messages) ELSE {})
         \cup InsertedIds(Tail(cs))

\* What one run of the finish hook does to the finalize and store variables.
\* failAt is the storage call that throws (0: none does).
RunFinalize(e, flag, chat, messages, finished, failAt) ==
    LET mode == FinalizeFlag(e, flag)
        plan == handleFinishedMessages(finished, messages, chat, mode, turns)
        done == EffectiveCalls(plan, failAt)
    IN /\ failAt \in 0..Len(plan)
       /\ finishedMessages' = finished
       /\ finalizeMode' = ModeName(mode)
       /\ calls' = IssuedCalls(plan, failAt)
       /\ finalizeOutcome' = IF failAt = 0 THEN "ok" ELSE "threw"
       /\ finalizeRuns' = finalizeRuns + 1
       /\ db' = ApplyCalls(db, done)
       /\ dbPrev' = db
       /\ normalIds' = IF mode THEN normalIds ELSE normalIds \cup InsertedIds(done)
       /\ nextId' = nextId + 1
       /\ turns' = turns + 1

Finalize ==
    /\ FinalizeReady
    /\ pc \in {"streaming", "closed"}
    /\ \E finished \in FinishedChoices(EntryOriginals(entry, isToolApprovalFlow, uiMessages),
                                       emitted, nextId) :
          \E failAt \in 0..(Len(finished) + 1) :
             RunFinalize(entry, isToolApprovalFlow, chatId, uiMessages, finished, failAt)
    /\ pc' = "finalized"
    /\ UNCHANGED <<userIntent, classifyOutcome, route, steps, genInput, extractCalls, modelCalls>>
    /\ UNCHANGED <<sideVars, titleVars, turnVars, streamVars>>

----------------------------------------------------------------------------
(* Specification of one turn *)

Next ==
    \/ /\ pc = "idle"
       /\ \E e \in Entries, flag \in BOOLEAN, chat \in PipelineChats,
             messages \in Histories(db) :
             StartTurn(e, flag, chat, messages, FALSE)
    \/ Classify
    \/ GraphThrows
    \/ Route
    \/ Preprocess
    \/ Invoke
    \/ FallbackInvoke
    \/ Emit
    \/ GenFinish
    \/ GenFail
    \/ Forward
    \/ ClientDisconnect
    \/ ExecuteSettles
    \/ CloseStream
    \/ Finalize

Spec == Init /\ [][Next]_vars

----------------------------------------------------------------------------
(* Fairness: the model collaborator answers and streams end, the event loop *)
(* runs every continuation that is ready.  Nothing obliges a call to        *)
(* arrive, the client to stay, or a failure to happen.                      *)

Progress ==
    \/ Classify
    \/ Route
    \/ Preprocess
    \/ Invoke
    \/ FallbackInvoke
    \/ Emit
    \/ GenFinish
    \/ Forward
    \/ ExecuteSettles
    \/ CloseStream
    \/ Finalize

FairSpec == Spec /\ WF_vars(Progress)

----------------------------------------------------------------------------
(* Title task of the turn, and the specification of a first turn with it *)

\* titlePromise resolves and the continuation runs: updateChatTitleById is
\* called and its promise dropped (writeOk: whether that write succeeds), and
\* createChatStreamDirect writes the title event, which the UI message stream
\* takes while it is open.
TitleResolves(writeOk) ==
    /\ titleState = "pending"
    /\ titleState' = "resolved"
    /\ titleWrites' = Append(titleWrites, [chatId |-> chatId, ok |-> writeOk])
    /\ unhandled' = IF writeOk THEN unhandled
                    ELSE unhandled \cup {"updateChatTitleById"}
    /\ IF WritesTitleEvent(entry) /\ pc \notin {"closed", "finalized"}
       THEN /\ queue' = Append(queue, TitleChunk)
            /\ titleEvents' = titleEvents + 1
       ELSE UNCHANGED <<queue, titleEvents>>
    /\ UNCHANGED <<pc, userIntent, classifyOutcome, route, steps, genInput, extractCalls,
                   modelCalls, genState, emitted, outbound, client, execState>>
    /\ UNCHANGED <<sideVars, turnVars, finalizeVars, storeVars>>

\* titlePromise rejects: then() was given no rejection handler, so the promise
\* it returned rejects with nothing attached to it.
TitleRejects ==
    /\ titleState = "pending"
    /\ titleState' = "rejected"
    /\ unhandled' = unhandled \cup {"titlePromise"}
    /\ UNCHANGED <<titleWrites, titleEvents>>
    /\ UNCHANGED <<pc, userIntent, classifyOutcome, route, steps, genInput, extractCalls,
                   modelCalls>>
    /\ UNCHANGED <<sideVars, turnVars, streamVars, finalizeVars, storeVars>>

\* A title is generated for the first message of a chat: the turn's input is
\* that one user message.
TitleHistories == { <<m>> : m \in {c \in ClientMessages : c.role = "user"} }

TitleNext ==
    \/ /\ pc = "idle"
       /\ \E e \in Entries, chat \in PipelineChats, messages \in TitleHistories,
             titlePromise \in BOOLEAN :
             StartTurn(e, FALSE, chat, messages, titlePromise)
    \/ Classify
    \/ GraphThrows
    \/ Route
    \/ Preprocess
    \/ Invoke
    \/ FallbackInvoke
    \/ Emit
    \/ GenFinish
    \/ GenFail
    \/ Forward
    \/ ClientDisconnect
    \/ ExecuteSettles
    \/ CloseStream
    \/ Finalize
    \/ \E writeOk \in BOOLEAN : TitleResolves(writeOk)
    \/ TitleRejects

TitleSpec == Init /\ [][TitleNext]_vars

\* Nothing obliges the title task to complete.
FairTitleSpec == TitleSpec /\ WF_vars(Progress)

----------------------------------------------------------------------------
(* Specification of a sequence of turns over the persisted rows: each step  *)
(* is one whole turn, from the call of the entry point to the end of its    *)
(* finish hook.                                                             *)

EventsUpTo(n) == [k \in 1..n |-> Event(k, KindAt(k))]

\* Lengths of the response a collapsed turn streams: nothing, or a full stream.
TurnEvents == {0, MaxEvents}

Turn(e, flag, chat, messages, n) ==
    /\ pc = "idle"
    /\ turns < MaxTurns
    /\ entry' = e
    /\ isToolApprovalFlow' = flag
    /\ chatId' = chat
    /\ uiMessages' = messages
    /\ emitted' = EventsUpTo(n)
    /\ \E finished \in FinishedChoices(EntryOriginals(e, flag, messages),
                                       EventsUpTo(n), nextId) :
          \E failAt \in 0..(Len(finished) + 1) :
             RunFinalize(e, flag, chat, messages, finished, failAt)
    /\ pc' = "finalized"
    /\ UNCHANGED <<userIntent, classifyOutcome, route, steps, genInput, extractCalls, modelCalls,
                   genState, queue, outbound, client, execState>>
    /\ UNCHANGED <<sideVars, titleVars>>

\* The finish hook has returned; the next request of the chat can arrive.
NextRequest ==
    /\ pc = "finalized"
    /\ turns < MaxTurns
    /\ pc' = "idle"
    /\ entry' = "none"
    /\ isToolApprovalFlow' = FALSE
    /\ chatId' = "none"
    /\ uiMessages' = <<>>
    /\ emitted' = <<>>
    /\ finishedMessages' = <<>>
    /\ finalizeMode' = "none"
    /\ calls' = <<>>
    /\ finalizeOutcome' = "none"
    /\ finalizeRuns' = 0
    /\ dbPrev' = <<>>
    /\ UNCHANGED <<userIntent, classifyOutcome, route, steps, genInput, extractCalls, modelCalls,
                   genState, queue, outbound, client, execState>>
    /\ UNCHANGED <<db, normalIds, nextId, turns>>
    /\ UNCHANGED <<sideVars, titleVars>>

\* Entry points of a collapsed turn: one that hands the flag on, one that
\* does not.
TurnEntries == {"createChatStream", "resumeOptimizationAgent"}

TurnsNext ==
    \/ /\ pc = "idle"
       /\ turns < MaxTurns
       /\ \E messages \in Histories(db) :
             \E e \in TurnEntries, flag \in BOOLEAN, chat \in ChatIds, n \in TurnEvents :
                Turn(e, flag, chat, messages, n)
    \/ NextRequest

TurnsSpec == Init /\ [][TurnsNext]_vars

----------------------------------------------------------------------------
(* Properties of the finalize/persist reconciler *)

Finalized == pc = "finalized"

\* The storage call tool-approval mode owes one finished message: an update
\* of id and parts when the id is among the turn's input messages, otherwise
\* an insert of exactly that message as a row of the turn's chat.
CallMatches(call, message) ==
    IF message.id \in Ids(uiMessages)
    THEN call = [op |-> "updateMessage", id |-> message.id, parts |-> message.parts]
    ELSE /\ call.op = "saveMessages"
         /\ Len(call.messages) = 1
         /\ call.messages[1].id = message.id
         /\ call.messages[1].role = message.role
         /\ call.messages[1].parts = message.parts
         /\ call.messages[1].chatId = chatId

\* C1: in tool-approval mode the k-th storage call is the one owed to the
\* k-th finished message (update iff its id is among the input messages,
\* insert otherwise), no message gets a second call, and when no storage
\* call throws every finished message gets its call.
C1_UpdateIffKnownId ==
    (Finalized /\ finalizeMode = "tool-approval") =>
        /\ Len(calls) <= Len(finishedMessages)
        /\ \A k \in DOMAIN calls : CallMatches(calls[k], finishedMessages[k])
        /\ finalizeOutcome = "ok" => Len(calls) = Len(finishedMessages)

\* A tool-approval finalize that issued an update and an insert.
C1_Witness ==
    /\ Finalized
    /\ finalizeMode = "tool-approval"
    /\ finalizeOutcome = "ok"
    /\ \E j, k \in DOMAIN calls :
          /\ calls[j].op = "updateMessage"
          /\ calls[k].op = "saveMessages"

\* C2: the persisted rows never hold two rows with one id, and a finished
\* message whose id was already persisted before the finalize is not
\* inserted; when no storage call throws it is updated.
C2_OneRowPerId ==
    /\ \A i, j \in DOMAIN db : db[i].id = db[j].id => i = j
    /\ Finalized =>
          \A k \in DOMAIN finishedMessages :
             LET m == finishedMessages[k]
             IN RowsWithId(dbPrev, m.id) # {} =>
                   /\ m.id \notin InsertedIds(calls)
                   /\ finalizeOutcome = "ok" =>
                         \E c \in DOMAIN calls :
                            /\ calls[c].op = "updateMessage"
                            /\ calls[c].id = m.id

\* A second turn finalized a message whose id was persisted by the first,
\* and the table still has one row for it.
C2_Witness ==
    /\ Finalized
    /\ finalizeOutcome = "ok"
    /\ Len(db) = Len(dbPrev)
    /\ \E k \in DOMAIN finishedMessages :
          /\ RowsWithId(dbPrev, finishedMessages[k].id) # {}
          /\ Cardinality(RowsWithId(db, finishedMessages[k].id)) = 1

\* C3: when a message inserted by a normal-mode finalize comes back in a
\* tool-approval turn with the same id, the table afterwards holds exactly
\* one row with that id, carrying the finished message's parts.
C3_RoundTripUpdatesRow ==
    (Finalized /\ finalizeMode = "tool-approval" /\ finalizeOutcome = "ok") =>
        \A k \in DOMAIN finishedMessages :
           LET m == finishedMessages[k]
           IN (m.id \in normalIds /\ m.id \in Ids(uiMessages)) =>
                 /\ Cardinality(RowsWithId(db, m.id)) = 1
                 /\ \A i \in RowsWithId(db, m.id) : db[i].parts = m.parts

\* The round trip, with parts that differ from the ones first inserted.
C3_Witness ==
    /\ Finalized
    /\ finalizeMode = "tool-approval"
    /\ finalizeOutcome = "ok"
    /\ \E k \in DOMAIN finishedMessages :
          LET m == finishedMessages[k]
          IN /\ m.id \in normalIds
             /\ m.id \in Ids(uiMessages)
             /\ \E i \in RowsWithId(dbPrev, m.id) : dbPrev[i].parts # m.parts
             /\ \E i \in RowsWithId(db, m.id) : db[i].parts = m.parts

\* C4: in normal mode finalize issues no update; a non-empty list of
\* finished messages goes out as one insert whose rows keep each message's
\* id, role and parts and carry the turn's chat id, and an empty list
\* issues no storage call.
C4_NormalModeInsertsAll ==
    (Finalized /\ finalizeMode = "normal") =>
        IF finishedMessages = <<>>
        THEN calls = <<>>
        ELSE /\ Len(calls) = 1
             /\ calls[1].op = "saveMessages"
             /\ Len(calls[1].messages) = Len(finishedMessages)
             /\ \A k \in DOMAIN finishedMessages :
                   /\ calls[1].messages[k].id = finishedMessages[k].id
                   /\ calls[1].messages[k].role = finishedMessages[k].role
                   /\ calls[1].messages[k].parts = finishedMessages[k].parts
                   /\ calls[1].messages[k].chatId = chatId

\* A normal-mode finalize that inserted a streamed response.
C4_Witness ==
    /\ Finalized
    /\ finalizeMode = "normal"
    /\ finalizeOutcome = "ok"
    /\ finishedMessages # <<>>
    /\ finishedMessages[1].parts # <<>>
    /\ calls # <<>>

\* C5: the mode finalize runs in is the one the turn's tool-approval flag
\* selects, whichever entry point and generator handled the turn.
C5_ModeFollowsFlag ==
    Finalized => finalizeMode = ModeName(isToolApprovalFlow)

----------------------------------------------------------------------------
(* Properties of the order of the pipeline steps *)

\* Position of a step in the turn's step log, 0 when it did not run.
StepPos(name) ==
    IF \E k \in DOMAIN steps : steps[k] = name
    THEN CHOOSE k \in DOMAIN steps : steps[k] = name
    ELSE 0

Ran(name) == StepPos(name) > 0

Before(a, b) == (Ran(a) /\ Ran(b)) => StepPos(a) < StepPos(b)

C7_GeneratorSeesNoPdf ==
    (entry \in Routed /\ Ran("invoke")) => (Preprocessed /\ ~HasPdf(genInput))

----------------------------------------------------------------------------
(* Properties of the end of a turn *)

----------------------------------------------------------------------------
(* Properties of the outbound stream *)

ErrorEvents(events) == SelectSeq(events, LAMBDA e : e.kind = "error")

GeneratorEvents(events) == SelectSeq(events, LAMBDA e : e.kind # "error")

\* The parts of the last finished message end with the parts of the events
\* the generator emitted.
CarriesEmitted ==
    /\ finishedMessages # <<>>
    /\ LET parts == finishedMessages[Len(finishedMessages)].parts
           n == Len(emitted)
       IN /\ Len(parts) >= n
          /\ SubSeq(parts, Len(parts) - n + 1, Len(parts)) = ResponseParts(emitted)

\* What holds in every state of a turn whose model invocation failed.
FailedTurnShape ==
    /\ Len(ErrorEvents(outbound)) <= 1
    /\ (genState = "error" /\ pc \in {"closed", "finalized"} /\ client = "connected") =>
          /\ Len(ErrorEvents(outbound)) = 1
          /\ outbound[Len(outbound)].kind = "error"
    /\ (Finalized /\ genState = "error") =>
          /\ finalizeRuns = 1
          /\ emitted # <<>> => CarriesEmitted

C12_WitnessRecovered ==
    /\ Finalized
    /\ client = "connected"
    /\ genState = "done"
    /\ classifyOutcome = "threw"
    /\ "u_bad" \in {extractCalls[k] : k \in DOMAIN extractCalls}
    /\ outbound = emitted
    /\ emitted # <<>>

----------------------------------------------------------------------------
(* Properties of classification and routing *)

\* The generator a label stands for.
GeneratorOfLabel(label) ==
    CASE label = "resume_opt" -> "resume"
      [] label = "mock_interview" -> "interview"
      [] OTHER -> "chat"

NodeOfLabel(label) ==
    CASE label = "resume_opt" -> "resumeOpt"
      [] label = "mock_interview" -> "mockInterview"
      [] OTHER -> "chat"

\* C15: once a turn is routed, its generator is the resume generator for
\* resume_opt, the interview generator for mock_interview and the chat
\* generator for every other value of the label (related_topics, others,
\* null, an unknown label); routeByIntent maps the labels to the graph's
\* nodes the same way.
C15_RoutingTotal ==
    /\ Ran("route") => route = GeneratorOfLabel(userIntent.intent)
    /\ \A l \in ReplyLabels : routeByIntent(l) = NodeOfLabel(l)

\* A turn whose label is none of the four went on to the chat generator.
C15_Witness ==
    /\ pc = "streaming"
    /\ userIntent.intent \in {"bogus", "null"}
    /\ route = "chat"
    /\ modelCalls = 1

\* Confidence values a classification result can carry, in hundredths.
Confidences == {NoConfidence, 0, 50, 80, 95, 100}

\* C16: the generator selected for a turn is the one that would be selected
\* for the same label with any other confidence, a missing one included.
C16_RouteIgnoresConfidence ==
    Ran("route") =>
        \A c \in Confidences : RouteOf(entry, Intent(userIntent.intent, c)) = route

\* A turn classified resume_opt with no confidence went to the resume
\* generator, as one classified with a confidence does.
C16_Witness ==
    /\ Ran("route")
    /\ userIntent = Intent("resume_opt", NoConfidence)
    /\ route = "resume"
    /\ RouteOf(entry, Intent("resume_opt", 95)) = "resume"

\* C17: a turn with no user message, or whose latest user message has no
\* text, is classified others with confidence 1.0 without a call to the
\* model.
C17_NoTextIsOthersFullConfidence ==
    (Ran("classify") /\ ~HasUserText(uiMessages)) =>
        /\ userIntent = Intent("others", 100)
        /\ ~CalledModel(classifyOutcome)

\* C18: when the classifier's model call throws, or its reply holds no
\* structured result, classification returns related_topics with confidence
\* 0.5 and the turn goes to the chat generator.
C18_FailureIsRelatedTopicsHalf ==
    (Ran("classify") /\ classifyOutcome \in {"threw", "unparsed"}) =>
        /\ userIntent = Intent("related_topics", 50)
        /\ Ran("route") => route = "chat"

\* C19: every classification result has one of the four labels and a
\* confidence between 0 and 1.
C19_IntentWellFormed ==
    Ran("classify") =>
        /\ userIntent.intent \in IntentLabels
        /\ userIntent.confidence \in 0..100

----------------------------------------------------------------------------
(* Properties of the attachment pre-processor *)

\* after is what the pre-processor owes for the part before: a PDF file part
\* becomes one text part, which holds the document's text and the file name
\* when the extraction succeeded; any other part is handed on as it is.
PartKept(before, after) ==
    IF IsPdfPart(before)
    THEN /\ after.type = "text"
         /\ ~ExtractFails(before.url) =>
               /\ \E k \in DOMAIN after.text :
                     after.text[k] = ExtractPDFFromUrl(before.url).text
               /\ \E k \in DOMAIN after.text : after.text[k] = FilenameOf(before)
    ELSE after = before

\* C20: the pre-processed list has the messages of the input list, in
\* order, with their ids and roles and as many parts each; each PDF file
\* part has become one text part at its position, holding the rendering of
\* the document when the extraction succeeded, and every other part is
\* unchanged at its position.
C20_PreprocessKeepsShape ==
    Preprocessed =>
        /\ Len(genInput) = Len(uiMessages)
        /\ \A i \in DOMAIN uiMessages :
              /\ genInput[i].id = uiMessages[i].id
              /\ genInput[i].role = uiMessages[i].role
              /\ Len(genInput[i].parts) = Len(uiMessages[i].parts)
              /\ \A j \in DOMAIN uiMessages[i].parts :
                    PartKept(uiMessages[i].parts[j], genInput[i].parts[j])

\* A pre-processed turn with a readable PDF followed by a text part, and an
\* image file in another message.
C20_Witness ==
    /\ Preprocessed
    /\ Len(uiMessages) > 1
    /\ \E i \in DOMAIN uiMessages :
          /\ Len(uiMessages[i].parts) > 1
          /\ IsPdfPart(uiMessages[i].parts[1])
          /\ ~ExtractFails(uiMessages[i].parts[1].url)
          /\ genInput[i].parts[1].type = "text"
    /\ \E i \in DOMAIN uiMessages :
          /\ uiMessages[i].parts[1].type = "file"
          /\ ~IsPdfPart(uiMessages[i].parts[1])
          /\ genInput[i].parts[1] = uiMessages[i].parts[1]

----------------------------------------------------------------------------
(* C21: a failing extraction is contained in its part *)

FailedPart(part) == IsPdfPart(part) /\ ExtractFails(part.url)

\* The text that stands for a document that could not be read.
Placeholder(part) ==
    TextPart(<<"[PDF Document: ", FilenameOf(part), "]",
               " (Unable to extract content)">>)

\* C21: when the extraction of a PDF part fails, the pre-processor still
\* returns; that part has become the placeholder text part naming the file
\* and the failure, and every other part of the turn, the PDF parts before
\* and after it included, is what the pre-processor makes of it on its own.
C21_FailedPartBecomesPlaceholder ==
    Preprocessed =>
        /\ pc # "preprocess"
        /\ Len(genInput) = Len(uiMessages)
        /\ \A i \in DOMAIN uiMessages :
              /\ Len(genInput[i].parts) = Len(uiMessages[i].parts)
              /\ \A j \in DOMAIN uiMessages[i].parts :
                    LET part == uiMessages[i].parts[j] IN
                    IF FailedPart(part)
                    THEN genInput[i].parts[j] = Placeholder(part)
                    ELSE genInput[i].parts[j] = ProcessParts(<<part>>)[1]

\* A pre-processed turn whose message has an unreadable PDF between two
\* readable ones, next to a message without any PDF.
C21_Witness ==
    /\ Preprocessed
    /\ Len(uiMessages) > 1
    /\ \E i \in DOMAIN uiMessages :
          /\ Len(uiMessages[i].parts) = 3
          /\ FailedPart(uiMessages[i].parts[2])
          /\ genInput[i].parts[2] = Placeholder(uiMessages[i].parts[2])
          /\ genInput[i].parts[1].type = "text"
          /\ genInput[i].parts[3] = genInput[i].parts[1]
          /\ genInput[i].parts[3] # genInput[i].parts[2]

----------------------------------------------------------------------------
(* C22: the pre-processor is idempotent *)

\* C22: the pre-processor applied to its own output returns that output
\* unchanged and hands no url to the extraction collaborator.
C22_PreprocessIdempotent ==
    Preprocessed =>
        /\ processMessagesWithPDF(genInput) = genInput
        /\ ExtractionUrls(genInput) = <<>>

\* A pre-processed turn whose input held a readable and an unreadable PDF,
\* so that the first application changed the messages and called the
\* extraction.
C22_Witness ==
    /\ Preprocessed
    /\ genInput # uiMessages
    /\ Len(extractCalls) > 1
    /\ \E k \in DOMAIN extractCalls : ExtractFails(extractCalls[k])
    /\ \E k \in DOMAIN extractCalls : ~ExtractFails(extractCalls[k])
    /\ processMessagesWithPDF(genInput) = genInput

----------------------------------------------------------------------------
(* C23: extraction calls of a turn *)

\* C23 as stated: once a routed turn has invoked its generator, the
\* extraction collaborator has been called exactly once for each PDF file
\* part of the turn, whatever the route and the pipeline.
C23_ExtractedOncePerPdfPart ==
    (entry \in Routed /\ Ran("invoke")) =>
        extractCalls = ExtractionUrls(uiMessages)

----------------------------------------------------------------------------
(* Model context of the generators: the messages handed to streamText *)

ContextLine(role, content) == [role |-> role, content |-> content]

\* messages.map(msg => ({role, content: text parts joined by a blank}))
HistoryContext(messages) ==
    [i \in DOMAIN messages |->
        ContextLine(messages[i].role, MessageText(messages[i]))]

\* Text of messages[messages.length - 1], or "" when there is none.
LastMessageText(messages) ==
    IF messages = <<>> THEN <<>> ELSE MessageText(messages[Len(messages)])

\* Scripted exchange that opens a resume conversation.
ResumeScriptedUser == <<"RESUME_REQUEST">>
ResumeScriptedGreeting == <<"RESUME_GREETING">>

\* Scripted exchange that opens an interview.
InterviewScriptedUser == <<"INTERVIEW_REQUEST">>
InterviewScriptedGreeting == <<"INTERVIEW_GREETING">>

Primed(scriptedUser, scriptedGreeting, text) ==
    << ContextLine("user", scriptedUser),
       ContextLine("assistant", scriptedGreeting),
       ContextLine("user", text) >>

\* executeResumeOptStream and resumeOptimizationAgent: the messages of the
\* streamText call, from the messages the generator works on.
ResumeOptContext(messages) ==
    IF ~hasResumeContent(messages)
    THEN Primed(ResumeScriptedUser, ResumeScriptedGreeting,
                LastMessageText(messages))
    ELSE HistoryContext(messages)

\* executeMockInterviewStream and mockInterviewAgent.
MockInterviewContext(messages) ==
    LET userMessages == SelectRole(messages, "user")
        isFirstMessage == Len(userMessages) <= 1
    IN IF isFirstMessage
       THEN Primed(InterviewScriptedUser, InterviewScriptedGreeting,
                   LastMessageText(messages))
       ELSE HistoryContext(messages)

\* convertToModelMessages keeps the parts of each message.
ConvertToModelMessages(messages) ==
    [i \in DOMAIN messages |->
        ContextLine(messages[i].role, messages[i].parts)]

\* Messages of the streamText call of the turn's generator, from the
\* messages it works on.
ContextOf(e, r, messages) ==
    CASE e = "createLangGraphStream" -> HistoryContext(messages)
      [] e # "createLangGraphStream" /\ r = "resume" -> ResumeOptContext(messages)
      [] e # "createLangGraphStream" /\ r = "interview" ->
             MockInterviewContext(messages)
      [] OTHER -> ConvertToModelMessages(messages)

\* Context of the model invocation of the turn, once it is made.
GeneratorContext == ContextOf(entry, route, genInput)

----------------------------------------------------------------------------
(* C24: resume generator without resume content *)

\* Messages the resume generator looks at for resume content.
ResumeInput == IF Preprocessed THEN genInput ELSE uiMessages

\* C24 as stated: when the resume generator is selected and no user message
\* of the turn is longer than the threshold, the turn makes no model
\* invocation.
C24_NoModelCallWithoutResume ==
    (route = "resume" /\ ~hasResumeContent(ResumeInput)) =>
        (~Ran("invoke") /\ modelCalls = 0)

----------------------------------------------------------------------------
(* C25: cold-start priming of the interview generator *)

\* Text of the most recent user message, or "" when there is none.
LastUserText(messages) == LastMessageText(SelectRole(messages, "user"))

\* C25 as stated: the interview generator's context is the scripted user
\* line, the scripted greeting and the text of the most recent user message
\* when the turn has at most one user message, and the text of the whole
\* history in order otherwise.
C25_InterviewPriming ==
    (route = "interview" /\ Ran("invoke")) =>
        GeneratorContext =
            IF Len(SelectRole(uiMessages, "user")) <= 1
            THEN Primed(InterviewScriptedUser, InterviewScriptedGreeting,
                        LastUserText(uiMessages))
            ELSE HistoryContext(uiMessages)

----------------------------------------------------------------------------
(* C26..C28: the detached title task *)

\* C26: a turn that was given a title promise runs to the end of its
\* finalize step in every interleaving with the title task, the ones where
\* the title task never completes included.
C26_TitleNeverBlocksTurn ==
    (pc # "idle" /\ titleState # "none") ~> Finalized

\* A routed turn that classified, generated, streamed to the client and
\* finalized while its title task was still pending.
C26_Witness ==
    /\ Finalized
    /\ finalizeRuns = 1
    /\ titleState = "pending"
    /\ entry \in Routed
    /\ Ran("classify")
    /\ Ran("invoke")
    /\ Len(emitted) = MaxEvents
    /\ outbound = emitted

\* The title promise rejected, or the storage write of the title failed.
TitleFailed ==
    \/ titleState = "rejected"
    \/ \E k \in DOMAIN titleWrites : ~titleWrites[k].ok

\* Error events in flight to, or received by, the client.
TitleErrorEvents ==
    {k \in DOMAIN (queue \o outbound) : (queue \o outbound)[k].kind = "error"}

\* C27 as stated: a failure of the title task leaves no unhandled rejection
\* and, when the generator did not fail, no error event on the outbound
\* stream.
C27_TitleFailureSwallowed ==
    TitleFailed =>
        /\ unhandled = {}
        /\ genState # "error" => TitleErrorEvents = {}

\* C28 as stated: once the title task has completed, its result has been
\* written once to storage for the turn's chat and one title event has been
\* written to the outbound stream.
C28_TitleWrittenAndEmitted ==
    titleState = "resolved" =>
        /\ Len(titleWrites) = 1
        /\ titleWrites[1].chatId = chatId
        /\ titleEvents = 1

----------------------------------------------------------------------------
(* C29: independence of the message writes of finalize *)

\* C29 as stated: in tool-approval mode every finished message gets its
\* storage call, whether or not the call of another message failed.
C29_WritesIndependent ==
    (Finalized /\ finalizeMode = "tool-approval") =>
        Len(calls) = Len(finishedMessages)

----------------------------------------------------------------------------
(* C30: the turn's input list is left alone *)

\* C30: from the dispatch of a turn on, no step of the pipeline (PDF
\* pre-processing, priming, generation, streaming, finalize) changes the
\* turn's message list or the parts of its messages, so finalize compares
\* the finished ids against the list as it was dispatched.
C30_InputNeverMutated ==
    [][pc # "idle" => uiMessages' = uiMessages]_vars

\* A tool-approval turn with a PDF that was pre-processed, generated and
\* finalized: the generator worked on converted messages, finalize updated
\* the row of an input message.
C30_Witness ==
    /\ Finalized
    /\ Preprocessed
    /\ Ran("invoke")
    /\ HasPdf(uiMessages)
    /\ ~HasPdf(genInput)
    /\ finalizeMode = "tool-approval"
    /\ \E k \in DOMAIN calls :
          /\ calls[k].op = "updateMessage"
          /\ calls[k].id \in Ids(uiMessages)

----------------------------------------------------------------------------
(* Request body schema (postRequestBodySchema) *)

\* A string is either a well-formed uuid or not; a url either parses or not.
IsUuid(s) == s = "uuid"
UrlOk(url) == url \in {"data:pdf", "https://files/cv.pdf"}

ReqFilePart(mediaType, name, url) ==
    [type |-> "file", mediaType |-> mediaType, name |-> name, url |-> url]

\* textPartSchema: type text, text of 1 to 200,000,000 characters
textPartSchema(p) ==
    /\ p.type = "text"
    /\ TextLength(p.text) >= 1

\* filePartSchema: an allowed media type, a name of 1 to 100 characters and a
\* url that parses
filePartSchema(p) ==
    /\ p.type = "file"
    /\ p.mediaType \in {"image/jpeg", "image/png", "application/pdf"}
    /\ TextLength(<<p.name>>) >= 1
    /\ UrlOk(p.url)

partSchema(p) == textPartSchema(p) \/ filePartSchema(p)

userMessageSchema(m) ==
    /\ IsUuid(m.id)
    /\ m.role = "user"
    /\ \A j \in DOMAIN m.parts : partSchema(m.parts[j])

\* messageSchema: any id, any role, any parts
messageSchema(m) == TRUE

\* An optional field is a sequence with no element (absent) or one (present).
Present(field) == field # <<>>

postRequestBodySchema(b) ==
    /\ IsUuid(b.id)
    /\ Present(b.message) => userMessageSchema(b.message[1])
    /\ Present(b.messages) =>
          \A i \in DOMAIN b.messages[1] : messageSchema(b.messages[1][i])
    /\ Present(b.selectedChatModel)
    /\ b.selectedVisibilityType \in {"public", "private"}

\* Request bodies put to the schema.
RequestMessages ==
    { [id |-> "uuid", role |-> "user", parts |-> <<TextPart(<<"hi">>)>>],
      [id |-> "uuid", role |-> "user",
       parts |-> <<ReqFilePart("application/pdf", "cv.pdf", "data:pdf")>>],
      [id |-> "uuid", role |-> "user",
       parts |-> <<ReqFilePart("application/zip", "cv.zip", "data:pdf")>>],
      [id |-> "uuid", role |-> "user", parts |-> <<TextPart(<<>>)>>],
      [id |-> "m-1", role |-> "user", parts |-> <<TextPart(<<"hi">>)>>],
      [id |-> "uuid", role |-> "assistant", parts |-> <<TextPart(<<"hi">>)>>] }

ReplayedLists ==
    { <<>>,
      << [id |-> "uuid", role |-> "user", parts |-> <<TextPart(<<"hi">>)>>],
         [id |-> "m-2", role |-> "assistant",
          parts |-> <<ToolPart("approval-responded")>>] >> }

Bodies ==
    [ id : {"uuid", "chat-1"},
      message : {<<>>} \cup { <<m>> : m \in RequestMessages },
      messages : {<<>>} \cup { <<l>> : l \in ReplayedLists },
      selectedChatModel : {<<>>, <<"chat-model">>},
      selectedVisibilityType : {"public", "private", "friends"} ]

Verdict(b) == IF postRequestBodySchema(b) THEN "accepted" ELSE "rejected"

\* A request body arrives and is parsed against the schema.
ParseRequest(b) ==
    /\ request' = [body |-> b, verdict |-> Verdict(b)]
    /\ UNCHANGED <<pc, userIntent, classifyOutcome, route, steps, genInput, extractCalls,
                   modelCalls, toolCall, envUseLangGraph, graphRun>>
    /\ UNCHANGED <<titleVars, turnVars, streamVars, finalizeVars, storeVars>>

RequestNext == \E b \in Bodies : ParseRequest(b)

RequestSpec == Init /\ [][RequestNext]_vars

----------------------------------------------------------------------------
(* C31: the two inbound shapes *)

\* C31 as stated: a body the schema accepts carries exactly one of the new
\* user message and the replayed message list.
C31_ExactlyOneInboundShape ==
    request.verdict = "accepted" =>
        Present(request.body.message) # Present(request.body.messages)

----------------------------------------------------------------------------
(* Skill-scoring tool (evaluateSkillsTool.execute).  Scores are kept in     *)
(* tenths of a point: 50 is 5.0, 15 is 1.5.                                  *)

Max(a, b) == IF a >= b THEN a ELSE b
Min(a, b) == IF a <= b THEN a ELSE b

\* skill.includes("了解") || skill.toLowerCase().includes("understand")
IsWeakTerm(skill) == skill \in {"understand Vue", "understand CSS"}

\* the skill names one of the modern technologies
IsModernTech(skill) == skill \in {"React", "understand Vue"}

SkillNames == {"React", "jQuery", "understand Vue", "understand CSS"}

\* Variant: the difference of the two years, taken as it is.
YearsOfExperienceSigned(currentYear, graduationYear) == currentYear - graduationYear

YearsOfExperience(currentYear, graduationYear) ==
    Max(0, currentYear - graduationYear)

ExpectedSkillCount(years) == Min(15, 5 + years * 2)

\* Math.round(score * 10) / 10, on a score in tenths
RoundToTenth(score) == score

Summary(score) ==
    IF score >= 90 THEN "excellent"
    ELSE IF score >= 75 THEN "good"
    ELSE IF score >= 60 THEN "fair"
    ELSE "poor"

\* execute({graduationYear, skills}) run in the year currentYear
evaluateSkills(graduationYear, skills, currentYear) ==
    LET yearsOfExperience == YearsOfExperience(currentYear, graduationYear)
        expectedSkillCount == ExpectedSkillCount(yearsOfExperience)
        skillCount == Len(skills)
        enough == skillCount >= expectedSkillCount
        nearly == ~enough /\ skillCount * 10 >= expectedSkillCount * 7
        hasWeakTerms == \E k \in DOMAIN skills : IsWeakTerm(skills[k])
        hasModernTech == \E k \in DOMAIN skills : IsModernTech(skills[k])
        score == 50
                 + (IF enough THEN 20 ELSE IF nearly THEN 10 ELSE 0)
                 + (IF yearsOfExperience >= 3 THEN 20
                    ELSE IF yearsOfExperience >= 1 THEN 15 ELSE 10)
                 + (IF ~hasWeakTerms THEN 5 ELSE 0)
                 + (IF hasModernTech THEN 5 ELSE 0)
        clamped == Min(100, Max(50, score))
        suggestions ==
            (IF enough THEN <<>>
             ELSE IF nearly THEN <<[advice |-> "raise skill count to", n |-> expectedSkillCount]>>
             ELSE <<[advice |-> "too few skills, raise to", n |-> expectedSkillCount]>>)
            \o (IF yearsOfExperience >= 3
                THEN <<[advice |-> "mark core skills as expert, years", n |-> yearsOfExperience]>>
                ELSE IF yearsOfExperience >= 1
                THEN <<[advice |-> "mark common skills as proficient", n |-> 0]>>
                ELSE <<[advice |-> "graduate: mark skills as familiar", n |-> 0]>>)
            \o (IF hasWeakTerms THEN <<[advice |-> "avoid weak terms", n |-> 0]>> ELSE <<>>)
            \o (IF hasModernTech THEN <<>> ELSE <<[advice |-> "add modern stack", n |-> 0]>>)
    IN [ score |-> RoundToTenth(clamped),
         yearsOfExperience |-> yearsOfExperience,
         skillCount |-> skillCount,
         expectedSkillCount |-> expectedSkillCount,
         summary |-> Summary(clamped),
         suggestions |-> suggestions ]

\* Inputs of the tool: the years around the ones the clock shows, and skill
\* lists of every length with one leading skill of each sort.
ClockYears == {2026, 2027}
GraduationYears == 2020..2028

SkillLists ==
    { [k \in 1..n |-> IF k = 1 THEN first ELSE "jQuery"] :
        n \in 0..MaxSkills, first \in SkillNames }

\* The model calls the tool while the clock shows the year now.
CallEvaluateSkills(graduationYear, skills, now) ==
    /\ toolCall' = [ args |-> <<[graduationYear |-> graduationYear, skills |-> skills]>>,
                     now |-> now,
                     result |-> <<evaluateSkills(graduationYear, skills, now)>> ]
    /\ UNCHANGED <<pc, userIntent, classifyOutcome, route, steps, genInput, extractCalls,
                   modelCalls, request, envUseLangGraph, graphRun>>
    /\ UNCHANGED <<titleVars, turnVars, streamVars, finalizeVars, storeVars>>

SkillsNext ==
    \E graduationYear \in GraduationYears, skills \in SkillLists, now \in ClockYears :
        CallEvaluateSkills(graduationYear, skills, now)

SkillsSpec == Init /\ [][SkillsNext]_vars

ToolCalled == toolCall.result # <<>>

----------------------------------------------------------------------------
(* C32: the tool as a function of its two arguments *)

\* C32 as stated: the score and the suggestions of a call are the ones of
\* every call with the same graduationYear and skills, in whatever year it
\* runs.
C32_SkillsDeterministic ==
    ToolCalled =>
        \A now \in ClockYears :
            LET again == evaluateSkills(toolCall.args[1].graduationYear,
                                        toolCall.args[1].skills, now)
            IN /\ again.score = toolCall.result[1].score
               /\ again.suggestions = toolCall.result[1].suggestions

----------------------------------------------------------------------------
(* C33: range of the score and of the derived counts *)

\* C33: the score lies between 5 and 10, yearsOfExperience is not negative
\* and expectedSkillCount is min(15, 5 + 2 * yearsOfExperience).
C33_ScoreAndCountsInRange ==
    ToolCalled =>
        LET r == toolCall.result[1] IN
        /\ r.score >= 50
        /\ r.score <= 100
        /\ r.yearsOfExperience >= 0
        /\ r.expectedSkillCount = Min(15, 5 + 2 * r.yearsOfExperience)

\* Calls at both ends: a graduate of a later year with a short list of weak
\* terms, and an experienced developer with a full modern list.
C33_Witness ==
    /\ ToolCalled
    /\ toolCall.args[1].graduationYear > toolCall.now
    /\ toolCall.result[1].yearsOfExperience = 0
    /\ toolCall.result[1].score = 60
    /\ toolCall.result[1].expectedSkillCount = 5

C33_WitnessTop ==
    /\ ToolCalled
    /\ toolCall.result[1].score = 100
    /\ toolCall.result[1].expectedSkillCount = 15
    /\ toolCall.result[1].suggestions # <<>>

----------------------------------------------------------------------------
(* Turns of a chat that already holds rows: the table of chatA after two   *)
(* earlier normal-mode turns, each of which inserted its response, followed *)
(* by turns that replay those rows.  The earlier rows carry the dates of    *)
(* their turns, before the first turn counted here.                         *)

EarlierRows ==
    <<NewRow(ResponseMessage(<<>>, EventsUpTo(MaxEvents), ServerIdBase), "chatA", -2),
      NewRow(ResponseMessage(<<>>, EventsUpTo(MaxEvents), ServerIdBase + 1), "chatA", -1)>>

ReplayInit ==
    /\ TurnIdle
    /\ SideIdle
    /\ envUseLangGraph = "unset"
    /\ db = EarlierRows
    /\ dbPrev = <<>>
    /\ normalIds = Ids(EarlierRows)
    /\ nextId = ServerIdBase + Len(EarlierRows)
    /\ turns = 0

ReplayNext ==
    \/ /\ pc = "idle"
       /\ turns < MaxTurns
       /\ \E messages \in Histories(db) :
             \E flag \in BOOLEAN, chat \in PipelineChats, n \in TurnEvents :
                Turn("createChatStream", flag, chat, messages, n)
    \/ NextRequest

ReplaySpec == ReplayInit /\ [][ReplayNext]_vars

\* Fields of a row an update leaves alone.
SameButParts(old, new) ==
    /\ new.id = old.id
    /\ new.role = old.role
    /\ new.chatId = old.chatId
    /\ new.createdAt = old.createdAt
    /\ new.attachments = old.attachments

\* The storage calls of the finalize that took effect.
AppliedCalls ==
    IF finalizeOutcome = "threw" THEN SubSeq(calls, 1, Len(calls) - 1) ELSE calls

\* C34: an update issued by a tool-approval finalize carries only the id and
\* the new parts, and changes only the parts of the rows with that id: every
\* row persisted before the finalize keeps its id, role, chatId, createdAt
\* and attachments, and keeps its parts unless an update for its id took
\* effect.
C34_UpdateChangesOnlyParts ==
    (Finalized /\ finalizeMode = "tool-approval") =>
        /\ \A c \in DOMAIN calls :
              calls[c].op = "updateMessage" => DOMAIN calls[c] = {"op", "id", "parts"}
        /\ Len(db) >= Len(dbPrev)
        /\ \A i \in DOMAIN dbPrev :
              /\ SameButParts(dbPrev[i], db[i])
              /\ db[i].parts # dbPrev[i].parts =>
                    \E c \in DOMAIN AppliedCalls :
                       /\ AppliedCalls[c].op = "updateMessage"
                       /\ AppliedCalls[c].id = dbPrev[i].id
                       /\ AppliedCalls[c].parts = db[i].parts

\* A tool-approval finalize over a table of two rows: one row got new parts
\* from an update and kept its other fields, the other row is as it was.
C34_Witness ==
    /\ Finalized
    /\ finalizeMode = "tool-approval"
    /\ Len(dbPrev) >= 2
    /\ \E i, j \in DOMAIN dbPrev :
          /\ i # j
          /\ db[i].parts # dbPrev[i].parts
          /\ SameButParts(dbPrev[i], db[i])
          /\ db[j] = dbPrev[j]
          /\ \E c \in DOMAIN calls : calls[c] = UpdateCall(RowMessage(db[i]))

----------------------------------------------------------------------------
(* C35: resume content as the generator and the classify node see it *)

\* classifyNode: messages.filter(user).some(text.length > 50), on the
\* messages the graph was invoked with.
NodeHasResumeContent(messages) ==
    \E i \in DOMAIN messages :
        /\ messages[i].role = "user"
        /\ TextLength(MessageText(messages[i])) > ResumeThreshold

\* executeResumeOptStream: hasResumeContent(processedMessages)
GeneratorHasResume(messages) == hasResumeContent(processMessagesWithPDF(messages))

\* C35 as stated: for a turn the resume generator works on, the value the
\* generator computes is the value the classify node computes for that turn,
\* and both are true exactly when some user message of the turn has text
\* parts longer than 50 characters.
C35_SameResumeContent ==
    (route = "resume" /\ Preprocessed) =>
        /\ hasResumeContent(genInput) = GeneratorHasResume(uiMessages)
        /\ GeneratorHasResume(uiMessages) = NodeHasResumeContent(uiMessages)

----------------------------------------------------------------------------
(* C36: which routing createChatStream hands a turn to *)

\* Values of the environment variable USE_LANGGRAPH at module load.
EnvValues == {"unset", "true", "false", "1"}

\* const USE_LANGGRAPH = process.env.USE_LANGGRAPH === "true"
USE_LANGGRAPH(env) == env = "true"

\* createChatStream: if (USE_LANGGRAPH) return createLangGraphStream(...),
\* otherwise its own body, the legacy if/else routing.
Dispatched(env) ==
    IF USE_LANGGRAPH(env) THEN "createLangGraphStream" ELSE "createChatStream"

DispatchInit ==
    /\ TurnIdle
    /\ SideIdle
    /\ envUseLangGraph \in EnvValues
    /\ db = <<>>
    /\ dbPrev = <<>>
    /\ normalIds = {}
    /\ nextId = ServerIdBase
    /\ turns = 0

DispatchNext ==
    \/ /\ pc = "idle"
       /\ \E chat \in PipelineChats, messages \in TitleHistories :
             StartTurn(Dispatched(envUseLangGraph), FALSE, chat, messages, FALSE)
    \/ Classify
    \/ GraphThrows
    \/ Route
    \/ Preprocess
    \/ Invoke
    \/ FallbackInvoke
    \/ Emit
    \/ GenFinish
    \/ GenFail
    \/ Forward
    \/ ClientDisconnect
    \/ ExecuteSettles
    \/ CloseStream
    \/ Finalize

DispatchSpec == DispatchInit /\ [][DispatchNext]_vars

\* C36 as stated: a turn handed to createChatStream is routed by the
\* LangGraph stream unless USE_LANGGRAPH is "false", and by the legacy
\* if/else routing exactly when it is "false".
C36_LangGraphByDefault ==
    entry # "none" =>
        (entry = "createChatStream" <=> envUseLangGraph = "false")

----------------------------------------------------------------------------
(* C37: the finish hook of a turn *)

----------------------------------------------------------------------------
(* C38: the three routing implementations *)

\* The generator a node of the full graph runs: resumeOptNode,
\* mockInterviewNode and chatNode stream with the resume, the interview and
\* the chat prompt.
GeneratorOfNode(node) ==
    CASE node = "resumeOpt" -> "resume"
      [] node = "mockInterview" -> "interview"
      [] node = "chat" -> "chat"
      [] OTHER -> "none"

\* The three implementations select the same kind of generator for a label.
RoutingsAgree(label) ==
    /\ LegacyRoute(label) = StreamRoute(label)
    /\ GeneratorOfNode(routeByIntent(label)) = StreamRoute(label)

\* C38: the legacy if/else chain, routeByIntent and the switch of
\* createLangGraphStream select the same kind of generator for every intent
\* value, and the generator a routed turn got is the one each of the three
\* selects for the turn's label.
C38_RoutingsAgree ==
    /\ \A label \in ReplyLabels : RoutingsAgree(label)
    /\ Ran("route") =>
          /\ LegacyRoute(userIntent.intent) = route
          /\ StreamRoute(userIntent.intent) = route
          /\ GeneratorOfNode(routeByIntent(userIntent.intent)) = route

\* Turns routed by the LangGraph stream on a label that is none of the four,
\* which the other two implementations send to the chat generator as well.
C38_Witness ==
    /\ Ran("route")
    /\ entry = "createLangGraphStream"
    /\ userIntent.intent \notin IntentLabels
    /\ route = "chat"
    /\ LegacyRoute(userIntent.intent) = "chat"
    /\ routeByIntent(userIntent.intent) = "chat"

----------------------------------------------------------------------------
(* Runs of the compiled graphs: agentGraph (START -> classify -> END) and   *)
(* fullAgentGraph (START -> classify -> one agent node -> END)              *)

Graphs == {"agentGraph", "fullAgentGraph"}

AgentNodes == {"resumeOpt", "mockInterview", "chat"}

\* AgentState reducers: (current, update) => update ?? current
Reduce(current, update) == IF update = "null" THEN current ELSE update

\* Where a run goes after classify: END in the classification-only graph,
\* the node routeByIntent names in the full graph.
AfterClassifyNode(graph, intent) ==
    IF graph = "agentGraph" THEN "END" ELSE routeByIntent(intent)

\* Variant: the agent nodes lead back to classify.
AfterAgentNodeBackToClassify(node) == "classify"

\* addEdge("resumeOpt", END), addEdge("mockInterview", END), addEdge("chat", END)
AfterAgentNode(node) == "END"

\* What an agent node can leave in response: the model's answer, the apology
\* of its catch block, or resumeOptNode's request for the resume.
NodeResponses(node) ==
    {"answer", "apology"} \cup (IF node = "resumeOpt" THEN {"ask-for-resume"} ELSE {})

GraphIdle ==
    [graph |-> "none", at |-> "none", messages |-> <<>>,
     visited |-> <<>>, intent |-> "null", response |-> ""]

\* graph.invoke({messages, selectedModel}): the state has its defaults and
\* the run is at the node START leads to.
GraphInvoke(graph, messages) ==
    /\ graphRun.graph = "none"
    /\ graphRun' = [GraphIdle EXCEPT !.graph = graph, !.at = "classify",
                                     !.messages = messages]
    /\ UNCHANGED <<pc, userIntent, classifyOutcome, route, steps, genInput, extractCalls,
                   modelCalls, request, toolCall, envUseLangGraph>>
    /\ UNCHANGED <<titleVars, turnVars, streamVars, finalizeVars, storeVars>>

\* classifyNode runs and its result is merged into the state
GraphClassify ==
    /\ graphRun.at = "classify"
    /\ \E result \in classifyNode(graphRun.messages) :
          LET intent == Reduce(graphRun.intent, result.intent)
          IN graphRun' = [graphRun EXCEPT
                             !.visited = Append(@, "classify"),
                             !.intent = intent,
                             !.at = AfterClassifyNode(graphRun.graph, intent)]
    /\ UNCHANGED <<pc, userIntent, classifyOutcome, route, steps, genInput, extractCalls,
                   modelCalls, request, toolCall, envUseLangGraph>>
    /\ UNCHANGED <<titleVars, turnVars, streamVars, finalizeVars, storeVars>>

\* resumeOptNode, mockInterviewNode or chatNode runs
GraphAgent ==
    /\ graphRun.at \in AgentNodes
    /\ \E response \in NodeResponses(graphRun.at) :
          graphRun' = [graphRun EXCEPT
                          !.visited = Append(@, graphRun.at),
                          !.response = response,
                          !.at = AfterAgentNode(graphRun.at)]
    /\ UNCHANGED <<pc, userIntent, classifyOutcome, route, steps, genInput, extractCalls,
                   modelCalls, request, toolCall, envUseLangGraph>>
    /\ UNCHANGED <<titleVars, turnVars, streamVars, finalizeVars, storeVars>>

\* invoke has returned the final state; the graph can be invoked again
GraphReturn ==
    /\ graphRun.at = "END"
    /\ graphRun' = GraphIdle
    /\ UNCHANGED <<pc, userIntent, classifyOutcome, route, steps, genInput, extractCalls,
                   modelCalls, request, toolCall, envUseLangGraph>>
    /\ UNCHANGED <<titleVars, turnVars, streamVars, finalizeVars, storeVars>>

GraphNext ==
    \/ \E graph \in Graphs, messages \in Histories(<<>>) : GraphInvoke(graph, messages)
    \/ GraphClassify
    \/ GraphAgent
    \/ GraphReturn

GraphSpec == Init /\ [][GraphNext]_vars

\* A node that is reached runs and returns: the model collaborator answers
\* or fails, and every node catches its failures.
FairGraphSpec == GraphSpec /\ WF_vars(GraphClassify) /\ WF_vars(GraphAgent)

\* The nodes a run has visited are classify, then, in the full graph only,
\* the one agent node routeByIntent names for the intent classify left.
VisitsInOrder ==
    LET run == graphRun
    IN /\ Len(run.visited) <= 2
       /\ Len(run.visited) >= 1 => run.visited[1] = "classify"
       /\ Len(run.visited) = 2 =>
             /\ run.graph = "fullAgentGraph"
             /\ run.visited[2] \in AgentNodes
             /\ run.visited[2] = routeByIntent(run.intent)
       /\ run.at \in AgentNodes => run.visited = <<"classify">>
       /\ run.at = "classify" => run.visited = <<>>
       /\ run.at = "END" =>
             Len(run.visited) = (IF run.graph = "fullAgentGraph" THEN 2 ELSE 1)

\* C39: every run of a compiled graph reaches END; a run of the full graph
\* has then visited classify once and after it exactly one agent node, the
\* one routeByIntent names; a run of the classification-only graph has
\* visited classify once and no agent node.
C39_GraphRunsTerminate ==
    /\ []VisitsInOrder
    /\ (graphRun.graph # "none") ~> (graphRun.at = "END")

\* A run of the full graph at END after classify and the chat node, on an
\* intent that is none of the four labels.
C39_Witness ==
    /\ graphRun.graph = "fullAgentGraph"
    /\ graphRun.at = "END"
    /\ graphRun.visited = <<"classify", "chat">>
    /\ graphRun.intent \notin IntentLabels

====
